---- MODULE Spec2Model ----
(***************************************************************************)
(* A model of libcloud/dns/drivers/cloudflare.py: the response classifier  *)
(* (CloudFlareDNSResponse), the connection adapter that injects the        *)
(* credentials (CloudFlareDNSConnection) and the driver operations         *)
(* (CloudFlareDNSDriver).                                                  *)
(*                                                                         *)
(* Python values are tagged records; the tag is the Python type name.      *)
(* A response body is text: a sequence of lexemes, so that json.loads is   *)
(* a parser that can fail and json.dumps is its inverse on documents.      *)
(*                                                                         *)
(* update_record is declared in the source with a parameter without a      *)
(* default after parameters with defaults (line 244); its body is modelled *)
(* with the parameters as they are named there.                            *)
(***************************************************************************)
EXTENDS Integers, Sequences, FiniteSets, TLC

VARIABLES ctor, conn, pc, call, sent, replies, outcome

vars == <<ctor, conn, pc, call, sent, replies, outcome>>

(***************************************************************************)
(* Bounds of the model.                                                    *)
(***************************************************************************)
\* integers offered as mode / extra / hours arguments are 0..MaxInt
MaxInt == 1

(***************************************************************************)
(* Program constants.                                                      *)
(***************************************************************************)
OK == 200
BAD_REQUEST == 400
UNAUTHORIZED == 401
SERVICE_UNAVAILABLE == 503
HoursDefault == 24
IntervalDefault == 20
API_HOST == "cloudflare.com"
API_ACTION == "/api_json.html"
EVENT_ACTION == "/ajax/external-event.html"

(***************************************************************************)
(* Python values.                                                          *)
(***************************************************************************)
PyNone == [t |-> "NoneType"]
PyBool(b) == [t |-> "bool", b |-> b]
PyInt(n) == [t |-> "int", n |-> n]
PyStr(s) == [t |-> "str", s |-> s]
PyList(l) == [t |-> "list", l |-> l]
PyDict(d) == [t |-> "dict", d |-> d]
\* the builtin function `id`, which line 233 passes as the record's id
PyBuiltinId == [t |-> "builtin_function_or_method", name |-> "id"]

EmptyDict == <<>>

\* Python truth value of an object
Truthy(v) ==
    CASE v.t = "NoneType" -> FALSE
      [] v.t = "bool" -> v.b
      [] v.t = "int" -> v.n # 0
      [] v.t = "str" -> v.s # ""
      [] v.t = "list" -> v.l # <<>>
      [] v.t = "dict" -> DOMAIN v.d # {}
      [] OTHER -> TRUE

(***************************************************************************)
(* Text and JSON.  A lexeme is a JSON punctuation mark, a JSON string      *)
(* literal, a JSON number literal, or raw text that is no JSON lexeme.     *)
(***************************************************************************)
Punct(c) == [k |-> "punct", s |-> c]
StrLit(s) == [k |-> "string", s |-> s]
NumLit(n) == [k |-> "number", n |-> n]
Raw(s) == [k |-> "raw", s |-> s]

IsPunct(toks, i, c) == i <= Len(toks) /\ toks[i] = Punct(c)

\* the keys of a dict, in a fixed order
RECURSIVE KeySeq(_)
KeySeq(S) ==
    IF S = {} THEN <<>>
    ELSE LET k == CHOOSE x \in S : TRUE
         IN <<k>> \o KeySeq(S \ {k})

\* json.dumps: the text of a document
RECURSIVE Dumps(_)
RECURSIVE DumpMembers(_, _)
RECURSIVE DumpElements(_)
DumpMembers(d, ks) ==
    IF ks = <<>> THEN <<>>
    ELSE <<StrLit(Head(ks)), Punct(":")>> \o Dumps(d[Head(ks)])
         \o (IF Len(ks) > 1 THEN <<Punct(",")>> ELSE <<>>)
         \o DumpMembers(d, Tail(ks))
DumpElements(l) ==
    IF l = <<>> THEN <<>>
    ELSE Dumps(Head(l))
         \o (IF Len(l) > 1 THEN <<Punct(",")>> ELSE <<>>)
         \o DumpElements(Tail(l))
Dumps(v) ==
    CASE v.t = "str" -> <<StrLit(v.s)>>
      [] v.t = "int" -> <<NumLit(v.n)>>
      [] v.t = "list" -> <<Punct("[")>> \o DumpElements(v.l) \o <<Punct("]")>>
      [] v.t = "dict" ->
           <<Punct("{")>> \o DumpMembers(v.d, KeySeq(DOMAIN v.d)) \o <<Punct("}")>>

\* json.loads: a recursive-descent parser.  Each parser returns
\* [ok, v, next]: whether it parsed, the value, and the next position.
ParseFail == [ok |-> FALSE, v |-> PyNone, next |-> 0]

RECURSIVE ParseValue(_, _)
RECURSIVE ParseMembers(_, _, _)
RECURSIVE ParseElements(_, _, _)
\* at position i, after "{" or ",": a key, ":", a value, then "," or "}"
ParseMembers(toks, i, d) ==
    IF i + 1 <= Len(toks) /\ toks[i].k = "string" /\ IsPunct(toks, i + 1, ":")
    THEN LET r == ParseValue(toks, i + 2)
             k == toks[i].s
             d2 == [x \in (DOMAIN d) \cup {k} |-> IF x = k THEN r.v ELSE d[x]]
         IN  IF ~r.ok THEN ParseFail
             ELSE IF IsPunct(toks, r.next, "}")
                  THEN [ok |-> TRUE, v |-> PyDict(d2), next |-> r.next + 1]
             ELSE IF IsPunct(toks, r.next, ",")
                  THEN ParseMembers(toks, r.next + 1, d2)
             ELSE ParseFail
    ELSE ParseFail
\* at position i, after "[" or ",": a value, then "," or "]"
ParseElements(toks, i, l) ==
    LET r == ParseValue(toks, i)
    IN  IF ~r.ok THEN ParseFail
        ELSE IF IsPunct(toks, r.next, "]")
             THEN [ok |-> TRUE, v |-> PyList(Append(l, r.v)), next |-> r.next + 1]
        ELSE IF IsPunct(toks, r.next, ",")
             THEN ParseElements(toks, r.next + 1, Append(l, r.v))
        ELSE ParseFail
ParseValue(toks, i) ==
    IF i > Len(toks) THEN ParseFail
    ELSE CASE toks[i].k = "string" ->
                [ok |-> TRUE, v |-> PyStr(toks[i].s), next |-> i + 1]
           [] toks[i].k = "number" ->
                [ok |-> TRUE, v |-> PyInt(toks[i].n), next |-> i + 1]
           [] toks[i] = Punct("{") ->
                IF IsPunct(toks, i + 1, "}")
                THEN [ok |-> TRUE, v |-> PyDict(EmptyDict), next |-> i + 2]
                ELSE ParseMembers(toks, i + 1, EmptyDict)
           [] toks[i] = Punct("[") ->
                IF IsPunct(toks, i + 1, "]")
                THEN [ok |-> TRUE, v |-> PyList(<<>>), next |-> i + 2]
                ELSE ParseElements(toks, i + 1, <<>>)
           [] OTHER -> ParseFail

\* json.loads(text): the whole text must be one value
Loads(text) ==
    LET r == ParseValue(text, 1)
    IN  IF r.ok /\ r.next = Len(text) + 1
        THEN [ok |-> TRUE, v |-> r.v]
        ELSE [ok |-> FALSE, v |-> PyNone]

(***************************************************************************)
(* Results of a call: a returned value or a raised exception.  `loads`     *)
(* counts the json.loads calls the call made.                              *)
(***************************************************************************)
Return(v, n) == [kind |-> "return", val |-> v, loads |-> n]
Raise(exc, fields, n) == [kind |-> "raise", exc |-> exc, val |-> fields, loads |-> n]

\* obj[key] of Python: KeyError on a dict without the key, TypeError on
\* an object that is no dict (a str or list indexed by a str)
HasItem(v, key) == v.t = "dict" /\ key \in DOMAIN v.d
ItemError(v) == IF v.t = "dict" THEN "KeyError" ELSE "TypeError"

(***************************************************************************)
(* Exceptions, by the fields their constructors store.                     *)
(***************************************************************************)
\* CloudFlareDNSError.__init__
CloudFlareDNSError(code, err_code, err_msg) ==
    [code |-> code, err_code |-> err_code, err_msg |-> err_msg]
\* InvalidCredsError(value)
InvalidCredsError(value) == [value |-> value]
\* MalformedResponseError(value, body=...)
MalformedResponseError(value, body) == [value |-> value, body |-> body]
NoFields == [none |-> TRUE]

\* str(n) of an int, as text
StrOfInt(n) == <<Raw(ToString(n))>>

(***************************************************************************)
(* CloudFlareDNSResponse.  A response is [status, body, error]: the HTTP   *)
(* status, the body text and the reason phrase.                            *)
(***************************************************************************)
\* success(self) with a fault: the status is not looked at
success_ignores_status(resp) ==
    LET body == Loads(resp.body)
    IN  IF ~body.ok THEN Raise("ValueError", NoFields, 1)
        ELSE IF ~HasItem(body.v, "result")
             THEN Raise(ItemError(body.v), NoFields, 1)
        ELSE IF body.v.d["result"] = PyStr("success")
             THEN Return(PyBool(TRUE), 1)
        ELSE Return(PyNone, 1)

\* success(self)
success(resp) ==
    LET body == Loads(resp.body)
    IN  IF ~body.ok THEN Raise("ValueError", NoFields, 1)
        ELSE IF ~HasItem(body.v, "result")
             THEN Raise(ItemError(body.v), NoFields, 1)
        ELSE IF body.v.d["result"] = PyStr("success")
             THEN Return(PyBool(resp.status = OK), 1)
        ELSE Return(PyNone, 1)

\* parse_error(self) with a fault: the body is parsed before the dispatch
\* on the status, and 503 is an error like the others
parse_error_parses_first(resp) ==
    LET status == resp.status
        body == Loads(resp.body)
    IN  IF status = UNAUTHORIZED
        THEN Raise("InvalidCredsError", InvalidCredsError(resp.body), 1)
        ELSE IF ~body.ok
             THEN Raise("MalformedResponseError",
                        MalformedResponseError(<<Raw("Failed to parse Json")>>,
                                               resp.body), 1)
        ELSE IF ~HasItem(body.v, "err_code") \/ ~HasItem(body.v, "msg")
             THEN Raise(ItemError(body.v), NoFields, 1)
        ELSE Raise("CloudFlareDNSError",
                   CloudFlareDNSError(status, body.v.d["err_code"],
                                      body.v.d["msg"]), 1)

\* parse_error(self) with a fault: err_code and msg are swapped and a
\* body that does not parse is reported without the body
parse_error_swaps_fields(resp) ==
    LET status == resp.status
        body == Loads(resp.body)
    IN  IF status = UNAUTHORIZED
        THEN Raise("InvalidCredsError", InvalidCredsError(resp.body), 0)
        ELSE IF status # SERVICE_UNAVAILABLE
        THEN IF ~body.ok
             THEN Raise("MalformedResponseError",
                        MalformedResponseError(<<Raw("Failed to parse Json")>>,
                                               <<>>), 1)
             ELSE IF ~HasItem(body.v, "err_code") \/ ~HasItem(body.v, "msg")
                  THEN Raise(ItemError(body.v), NoFields, 1)
             ELSE Raise("CloudFlareDNSError",
                        CloudFlareDNSError(status, body.v.d["msg"],
                                           body.v.d["err_code"]), 1)
        ELSE Return(resp.body, 0)

\* parse_error(self) with a fault: on 401 the message is always the body
parse_error_body_only(resp) ==
    LET status == resp.status
    IN  IF status = UNAUTHORIZED
        THEN Raise("InvalidCredsError", InvalidCredsError(resp.body), 0)
        ELSE parse_error_swaps_fields(resp)

\* parse_error(self)
parse_error(resp) ==
    LET status == resp.status
        body == Loads(resp.body)
    IN  IF status = UNAUTHORIZED
        THEN IF resp.body = <<>>
             THEN Raise("InvalidCredsError",
                        InvalidCredsError(StrOfInt(resp.status) \o <<Raw(": ")>>
                                          \o resp.error), 0)
             ELSE Raise("InvalidCredsError", InvalidCredsError(resp.body), 0)
        ELSE IF status # SERVICE_UNAVAILABLE
        THEN IF ~body.ok
             THEN Raise("MalformedResponseError",
                        MalformedResponseError(<<Raw("Failed to parse Json")>>,
                                               resp.body), 1)
             ELSE IF ~HasItem(body.v, "err_code")
                  THEN Raise(ItemError(body.v), NoFields, 1)
             ELSE IF ~HasItem(body.v, "msg")
                  THEN Raise(ItemError(body.v), NoFields, 1)
             ELSE Raise("CloudFlareDNSError",
                        CloudFlareDNSError(status, body.v.d["err_code"],
                                           body.v.d["msg"]), 1)
        ELSE Return(resp.body, 0)

(***************************************************************************)
(* Python builtins the driver uses.                                        *)
(***************************************************************************)
\* the decimal literals int(str) is tried on
Decimals == 0..HoursDefault

\* int(v): [ok, n, exc]
int(v) ==
    CASE v.t = "int" -> [ok |-> TRUE, n |-> v.n, exc |-> ""]
      [] v.t = "bool" -> [ok |-> TRUE, n |-> IF v.b THEN 1 ELSE 0, exc |-> ""]
      [] v.t = "str" ->
           IF \E n \in Decimals : ToString(n) = v.s
           THEN [ok |-> TRUE, n |-> CHOOSE n \in Decimals : ToString(n) = v.s,
                 exc |-> ""]
           ELSE [ok |-> FALSE, n |-> 0, exc |-> "ValueError"]
      [] OTHER -> [ok |-> FALSE, n |-> 0, exc |-> "TypeError"]

\* a + b: defined on two str and on two list, a TypeError otherwise
PyAdd(a, b) ==
    IF a.t = b.t /\ a.t \in {"str", "list"}
    THEN [ok |-> TRUE, v |-> [t |-> a.t, cat |-> <<a, b>>], exc |-> ""]
    ELSE [ok |-> FALSE, v |-> PyNone, exc |-> "TypeError"]

\* v in l, for a list l
InList(v, l) == \E i \in DOMAIN l : l[i] = v

\* datetime.datetime.fromtimestamp(ts).ctime()
ctime(ts) ==
    IF ts.t = "int"
    THEN [ok |-> TRUE, v |-> [t |-> "str", ctime |-> ts.n], exc |-> ""]
    ELSE [ok |-> FALSE, v |-> PyNone, exc |-> "TypeError"]

\* d[k] = v on a dict
DictSet(d, k, v) == [x \in (DOMAIN d) \cup {k} |-> IF x = k THEN v ELSE d[x]]

\* json.loads(text)[path[1]][path[2]]...: the value, or the error raised
RECURSIVE Items(_, _)
Items(v, path) ==
    IF path = <<>> THEN Return(v, 1)
    ELSE IF ~HasItem(v, Head(path)) THEN Raise(ItemError(v), NoFields, 1)
    ELSE Items(v.d[Head(path)], Tail(path))
LoadsItems(text, path) ==
    LET body == Loads(text)
    IN  IF ~body.ok THEN Raise("ValueError", NoFields, 1)
        ELSE Items(body.v, path)

(***************************************************************************)
(* CloudFlareDNSConnection.request: the request handed to the transport    *)
(* (the base class's request) by connection `self`.                        *)
(***************************************************************************)
DefaultHeaders ==
    PyDict("Content-Type" :> PyStr("application/json; charset=UTF-8"))

\* request with a fault: u and tkn are set only when the caller gave none
request_keeps_caller_auth(self, action, params, data, headers, method) ==
    LET h == IF ~Truthy(headers) THEN DefaultHeaders ELSE headers
        p0 == IF ~Truthy(params) THEN EmptyDict ELSE params.d
        p1 == IF "u" \in DOMAIN p0 THEN p0 ELSE DictSet(p0, "u", conn[self].user_id)
        p2 == IF "tkn" \in DOMAIN p1 THEN p1 ELSE DictSet(p1, "tkn", conn[self].key)
    IN  [conn |-> self, host |-> API_HOST, secure |-> TRUE, action |-> action,
         params |-> p2, data |-> data, method |-> method, headers |-> h]

request(self, action, params, data, headers, method) ==
    LET h == IF ~Truthy(headers) THEN DefaultHeaders ELSE headers
        p0 == IF ~Truthy(params) THEN EmptyDict ELSE params.d
        p1 == DictSet(p0, "u", conn[self].user_id)
        p2 == DictSet(p1, "tkn", conn[self].key)
    IN  [conn |-> self, host |-> API_HOST, secure |-> TRUE, action |-> action,
         params |-> p2, data |-> data, method |-> method, headers |-> h]

\* self.connection.request(action=..., params=...) as the driver calls it
connection_request(self, action, params) ==
    request(self, action, PyDict(params), <<>>, PyNone, "POST")

(***************************************************************************)
(* Inputs.                                                                 *)
(***************************************************************************)
Drivers == {"d1", "d2"}
Credentials == [user_id : {PyStr("alice"), PyStr("bob")},
                key : {PyStr("key1"), PyStr("key2")}]

Ints == {PyInt(n) : n \in 0..MaxInt}
ZoneIds == {PyStr("zone1")}
Levels == {PyStr(s) : s \in {"high", "med", "low", "eoff", "agg", "basic", "ultra"}}
          \cup {PyNone}
Modes == {PyBool(TRUE), PyBool(FALSE), PyStr("on"), PyNone} \cup Ints
Extras == {PyBool(TRUE), PyStr("1"), PyStr("abc"), PyNone} \cup Ints
Names == {PyStr("www")}
Types == {PyStr("A"), PyStr("CNAME")}
Datas == {PyStr("1.2.3.4")}
Ips == {PyStr("5.6.7.8")}

\* the keyword arguments a caller of zone_ips may give, each present or not
KwValues ==
    [hours |-> Ints \cup {PyInt(HoursDefault)},
     class |-> {PyStr("r"), PyStr("t")},
     geo |-> {PyInt(1)}]
Keywords == UNION {[ks -> UNION {KwValues[k] : k \in ks}] : ks \in SUBSET {"hours", "class", "geo"}}
ZoneIpsKeywords == {kw \in Keywords : \A k \in DOMAIN kw : kw[k] \in KwValues[k]}

\* documents the provider may send, and the texts of bodies
ResponseObjects ==
    {PyDict(EmptyDict),
     PyDict("result" :> PyDict("hits" :> PyInt(1)) @@ "expires_on" :> PyInt(1)
            @@ "fpurge_ts" :> PyInt(1) @@ "zones" :> PyDict("zone1" :> PyInt(1))
            @@ "ips" :> PyList(<<PyStr("5.6.7.8")>>) @@ "set" :> PyDict(EmptyDict)),
     PyDict("expires_on" :> PyStr("soon") @@ "fpurge_ts" :> PyStr("soon"))}
SuccessDocs ==
    {PyDict("result" :> PyStr("success") @@ "response" :> r) : r \in ResponseObjects}
EnvelopeValues ==
    [result |-> {PyStr("success"), PyStr("error"), PyInt(1)},
     err_code |-> {PyStr("E_FOO"), PyStr("bad thing")},
     msg |-> {PyStr("bad thing")}]
EnvelopeFcns == UNION {[ks -> UNION {EnvelopeValues[k] : k \in ks}]
                       : ks \in SUBSET {"result", "err_code", "msg"}}
EnvelopeDocs ==
    {PyDict(d) : d \in {e \in EnvelopeFcns : \A k \in DOMAIN e : e[k] \in EnvelopeValues[k]}}
OtherDocs == {PyList(<<>>), PyList(<<PyStr("result")>>), PyStr("success")}
Docs == EnvelopeDocs \cup SuccessDocs \cup OtherDocs

\* texts that are no JSON: empty, raw text, a document cut short, a
\* document followed by more text
CutShort(text) == SubSeq(text, 1, Len(text) - 1)
BrokenTexts ==
    {<<>>, <<Raw("<html>")>>, <<Raw("OK")>>}
    \cup {CutShort(Dumps(v)) : v \in EnvelopeDocs}
    \cup {Dumps(v) \o <<Raw("<html>")>> : v \in OtherDocs}
Bodies == {Dumps(v) : v \in Docs} \cup BrokenTexts

Statuses == {OK, BAD_REQUEST, UNAUTHORIZED, 500, SERVICE_UNAVAILABLE}
Reasons == {<<Raw("Unauthorized")>>, <<Raw("Service Unavailable")>>}
Responses == [status : Statuses, body : Bodies, error : Reasons]

\* what the transport does with a request of the driver: it raises what
\* the classifier raises for a rejected response, or it hands back a
\* response
DriverBodies ==
    {Dumps(v) : v \in SuccessDocs}
    \cup {Dumps(PyDict("result" :> PyStr("success"))), <<Raw("OK")>>}
DriverResponses ==
    [status : {OK, SERVICE_UNAVAILABLE}, body : DriverBodies,
     error : {<<Raw("Service Unavailable")>>}]
NoResponse == [status |-> 0, body |-> <<>>, error |-> <<>>]
RejectedResponses ==
    {[status |-> UNAUTHORIZED, body |-> <<>>, error |-> <<Raw("Unauthorized")>>],
     [status |-> 500, body |-> <<Raw("<html>")>>, error |-> <<Raw("Error")>>],
     [status |-> 500,
      body |-> Dumps(PyDict("result" :> PyStr("error") @@ "err_code" :> PyStr("E_FOO")
                            @@ "msg" :> PyStr("bad thing"))),
      error |-> <<Raw("Error")>>]}
TransportOutcomes ==
    {[raised |-> TRUE, exc |-> parse_error(r).exc, fields |-> parse_error(r).val,
      resp |-> NoResponse] : r \in RejectedResponses}
    \cup {[raised |-> FALSE, exc |-> "", fields |-> NoFields, resp |-> r]
            : r \in DriverResponses}

NoOutcome == [kind |-> "none", loads |-> 0]


Init ==
    /\ ctor \in [Drivers -> Credentials]
    /\ conn = ctor
    /\ pc = "ready"
    /\ call = [op |-> "init"]
    /\ sent = <<>>
    /\ replies = <<>>
    /\ outcome = NoOutcome

\* a call has run to its end: what was called, the requests it handed to
\* the transport, what the transport did with each, and what the call
\* returned or raised
Finish(c, s, r, o) ==
    /\ pc' = "returned"
    /\ call' = c
    /\ sent' = s
    /\ replies' = r
    /\ outcome' = o
    /\ UNCHANGED <<ctor, conn>>

\* the caller takes the result and is ready for its next call
caller_continues ==
    /\ pc = "returned"
    /\ pc' = "ready"
    /\ call' = [op |-> "init"]
    /\ sent' = <<>>
    /\ replies' = <<>>
    /\ outcome' = NoOutcome
    /\ UNCHANGED <<ctor, conn>>

(***************************************************************************)
(* The classifier applied to a response.                                   *)
(***************************************************************************)
response_success ==
    /\ pc = "ready"
    /\ \E resp \in Responses :
        Finish([op |-> "success", resp |-> resp], <<>>, <<>>, success(resp))

response_parse_error ==
    /\ pc = "ready"
    /\ \E resp \in Responses :
        Finish([op |-> "parse_error", resp |-> resp], <<>>, <<>>, parse_error(resp))

(***************************************************************************)
(* The connection called directly, with the caller's own parameters.       *)
(***************************************************************************)
CallerParams ==
    {PyNone, PyDict(EmptyDict), PyDict("a" :> PyStr("stats")),
     PyDict("a" :> PyStr("stats") @@ "u" :> PyStr("mallory")),
     PyDict("tkn" :> PyStr("key0") @@ "u" :> PyStr("bob"))}
CallerHeaders == {PyNone, PyDict("Accept" :> PyStr("text/plain"))}

\* what a driver method does with the transport's outcome t when it
\* returns the response's status compared with 200
status_ok(t) ==
    IF t.raised THEN Raise(t.exc, t.fields, 0)
    ELSE Return(PyBool(t.resp.status = OK), 0)

connection_request_call ==
    /\ pc = "ready"
    /\ \E self \in Drivers, params \in CallerParams, headers \in CallerHeaders,
       method \in {"POST", "GET"}, t \in TransportOutcomes :
        Finish([op |-> "request", self |-> self, params |-> params,
                headers |-> headers, method |-> method],
               <<request(self, API_ACTION, params, <<>>, headers, method)>>, <<t>>,
               IF t.raised THEN Raise(t.exc, t.fields, 0)
               ELSE Return([t |-> "Response", resp |-> t.resp], 0))

(***************************************************************************)
(* CloudFlareDNSDriver.                                                    *)
(***************************************************************************)
\* json.loads(response.body)[path...] of the transport's outcome
extract(t, path) ==
    IF t.raised THEN Raise(t.exc, t.fields, 0)
    ELSE LoadsItems(t.resp.body, path)

\* the same after `assert response.status == httplib.OK`
assert_ok_extract(t, path) ==
    IF t.raised THEN Raise(t.exc, t.fields, 0)
    ELSE IF t.resp.status # OK THEN Raise("AssertionError", NoFields, 0)
    ELSE LoadsItems(t.resp.body, path)

\* datetime.datetime.fromtimestamp(x).ctime() of an extracted value
as_ctime(o) ==
    IF o.kind = "raise" THEN o
    ELSE LET c == ctime(o.val)
         IN  IF c.ok THEN Return(c.v, o.loads) ELSE Raise(c.exc, NoFields, o.loads)

current_stats ==
    /\ pc = "ready"
    /\ \E self \in Drivers, zone_id \in ZoneIds,
       interval \in Ints \cup {PyInt(IntervalDefault)}, t \in TransportOutcomes :
        Finish([op |-> "current_stats", self |-> self, zone_id |-> zone_id,
                interval |-> interval],
               <<connection_request(self, API_ACTION,
                    "a" :> PyStr("stats") @@ "z" :> zone_id
                    @@ "interval" :> interval)>>, <<t>>,
               extract(t, <<"response", "result">>))

sec_lvls == <<PyStr("high"), PyStr("med"), PyStr("low"), PyStr("eoff")>>
cache_lvls == <<PyStr("agg"), PyStr("basic")>>

\* raise CloudFlareDNSError(..., err_msg='Level must be in ' + lvls)
level_error(lvls) ==
    LET err_msg == PyAdd(PyStr("Level must be in "), PyList(lvls))
    IN  IF ~err_msg.ok THEN Raise(err_msg.exc, NoFields, 0)
        ELSE Raise("CloudFlareDNSError",
                   CloudFlareDNSError(BAD_REQUEST, PyStr("E_INVLDINPUT"),
                                      err_msg.v), 0)

set_security_level ==
    /\ pc = "ready"
    /\ \E self \in Drivers, zone_id \in ZoneIds, level \in Levels :
        LET c == [op |-> "set_security_level", self |-> self,
                  zone_id |-> zone_id, level |-> level]
        IN  IF ~InList(level, sec_lvls)
            THEN Finish(c, <<>>, <<>>, level_error(sec_lvls))
            ELSE \E t \in TransportOutcomes :
                   Finish(c,
                          <<connection_request(self, API_ACTION,
                               "a" :> PyStr("sec_lvl") @@ "z" :> zone_id
                               @@ "v" :> level)>>, <<t>>,
                          status_ok(t))

set_cache_level ==
    /\ pc = "ready"
    /\ \E self \in Drivers, zone_id \in ZoneIds, level \in Levels :
        LET c == [op |-> "set_cache_level", self |-> self,
                  zone_id |-> zone_id, level |-> level]
        IN  IF ~InList(level, cache_lvls)
            THEN Finish(c, <<>>, <<>>, level_error(cache_lvls))
            ELSE \E t \in TransportOutcomes :
                   Finish(c,
                          <<connection_request(self, API_ACTION,
                               "a" :> PyStr("cache_lvl") @@ "z" :> zone_id
                               @@ "v" :> level)>>, <<t>>,
                          status_ok(t))

\* type(mode) != bool with a fault (isinstance(mode, int)): an int passes
mode_rejected_unless_int(mode) == mode.t \notin {"bool", "int"}

\* type(mode) != bool
mode_rejected(mode) == mode.t # "bool"

\* raise CloudFlareDNSError(..., err_msg='Mode must be boolean')
mode_error ==
    Raise("CloudFlareDNSError",
          CloudFlareDNSError(BAD_REQUEST, PyStr("E_INVLDINPUT"),
                             PyStr("Mode must be boolean")), 0)

set_development_mode ==
    /\ pc = "ready"
    /\ \E self \in Drivers, zone_id \in ZoneIds, mode \in Modes :
        LET c == [op |-> "set_development_mode", self |-> self,
                  zone_id |-> zone_id, mode |-> mode]
        IN  IF mode_rejected(mode)
            THEN Finish(c, <<>>, <<>>, mode_error)
            ELSE \E t \in TransportOutcomes :
                   Finish(c,
                          <<connection_request(self, API_ACTION,
                               "a" :> PyStr("devmode") @@ "z" :> zone_id
                               @@ "v" :> PyInt(int(mode).n))>>, <<t>>,
                          as_ctime(assert_ok_extract(t, <<"response", "expires_on">>)))

purge_cache ==
    /\ pc = "ready"
    /\ \E self \in Drivers, zone_id \in ZoneIds, t \in TransportOutcomes :
        Finish([op |-> "purge_cache", self |-> self, zone_id |-> zone_id],
               <<connection_request(self, API_ACTION,
                    "a" :> PyStr("fpurge_ts") @@ "z" :> zone_id
                    @@ "v" :> PyInt(1))>>, <<t>>,
               as_ctime(extract(t, <<"response", "fpurge_ts">>)))

purge_preloader_cache ==
    /\ pc = "ready"
    /\ \E self \in Drivers, zone_id \in ZoneIds, t \in TransportOutcomes :
        Finish([op |-> "purge_preloader_cache", self |-> self,
                zone_id |-> zone_id],
               <<connection_request(self, EVENT_ACTION,
                    "a" :> PyStr("pre_purge") @@ "zone_name" :> zone_id)>>, <<t>>,
               status_ok(t))

zone_check ==
    /\ pc = "ready"
    /\ \E self \in Drivers, zones \in {PyStr("zone1,zone2")}, t \in TransportOutcomes :
        Finish([op |-> "zone_check", self |-> self, zones |-> zones],
               <<connection_request(self, API_ACTION,
                    "a" :> PyStr("zone_check") @@ "zones" :> zones)>>, <<t>>,
               extract(t, <<"response", "zones">>))

\* how Python binds the keyword arguments kw of a call of
\* zone_ips(self, zone_id, hours=24, **kwargs): a keyword that names a
\* parameter goes to the parameter, the others go to kwargs
zone_ips_bind(kw) ==
    [hours |-> IF "hours" \in DOMAIN kw THEN kw["hours"] ELSE PyInt(HoursDefault),
     kwargs |-> [k \in (DOMAIN kw) \ {"hours"} |-> kw[k]]]

\* the three `if ... in kwargs.keys()` of zone_ips
zone_ips_params(zone_id, kwargs) ==
    LET p0 == "a" :> PyStr("zone_ips") @@ "zid" :> zone_id
        p1 == IF "hours" \in DOMAIN kwargs
              THEN DictSet(p0, "hours", kwargs["hours"]) ELSE p0
        p2 == IF "class" \in DOMAIN kwargs
              THEN DictSet(p1, "class", kwargs["class"]) ELSE p1
        p3 == IF "geo" \in DOMAIN kwargs
              THEN DictSet(p2, "geo", kwargs["geo"]) ELSE p2
    IN  p3

zone_ips ==
    /\ pc = "ready"
    /\ \E self \in Drivers, zone_id \in ZoneIds, kw \in ZoneIpsKeywords,
       t \in TransportOutcomes :
        LET b == zone_ips_bind(kw)
        IN  Finish([op |-> "zone_ips", self |-> self, zone_id |-> zone_id,
                    kw |-> kw],
                   <<connection_request(self, API_ACTION,
                                        zone_ips_params(zone_id, b.kwargs))>>, <<t>>,
                   extract(t, <<"response", "ips">>))

zone_grab ==
    /\ pc = "ready"
    /\ \E self \in Drivers, zone_id \in ZoneIds, t \in TransportOutcomes :
        Finish([op |-> "zone_grab", self |-> self, zone_id |-> zone_id],
               <<connection_request(self, API_ACTION,
                    "a" :> PyStr("zone_grab") @@ "z" :> zone_id)>>, <<t>>,
               assert_ok_extract(t, <<"response", "set">>))

report_spam ==
    /\ pc = "ready"
    /\ \E self \in Drivers, spam_array \in {PyDict("a" :> PyStr("spammer"))},
       t \in TransportOutcomes :
        Finish([op |-> "report_spam", self |-> self, spam_array |-> spam_array],
               <<connection_request(self, EVENT_ACTION,
                    "evnt_t" :> PyStr("CF_USER_SPAM") @@ "evnt_v" :> spam_array)>>, <<t>>,
               status_ok(t))

whitelist_ip ==
    /\ pc = "ready"
    /\ \E self \in Drivers, ip \in Ips, t \in TransportOutcomes :
        Finish([op |-> "whitelist_ip", self |-> self, ip |-> ip],
               <<connection_request(self, API_ACTION,
                    "a" :> PyStr("wl") @@ "key" :> ip)>>, <<t>>,
               status_ok(t))

blacklist_ip ==
    /\ pc = "ready"
    /\ \E self \in Drivers, ip \in Ips, t \in TransportOutcomes :
        Finish([op |-> "blacklist_ip", self |-> self, ip |-> ip],
               <<connection_request(self, API_ACTION,
                    "a" :> PyStr("ban") @@ "key" :> ip)>>, <<t>>,
               status_ok(t))

\* the extra parameter of create_record with a fault: the default is 0
create_record_extra_default_zero(given, extra) ==
    IF given THEN extra ELSE PyInt(0)

\* the extra parameter of create_record(..., extra=None)
create_record_extra(given, extra) == IF given THEN extra ELSE PyNone

\* the params of create_record with a fault: content is the name
create_record_params_content_name(name, zone, type, data, service_mode) ==
    "a" :> PyStr("rec_set") @@ "name" :> name @@ "zone" :> zone
    @@ "type" :> type @@ "content" :> name
    @@ "service_mode" :> PyInt(service_mode)

\* the params of create_record
create_record_params(name, zone, type, data, service_mode) ==
    "a" :> PyStr("rec_set") @@ "name" :> name @@ "zone" :> zone
    @@ "type" :> type @@ "content" :> data
    @@ "service_mode" :> PyInt(service_mode)

\* Record(id=id, name=name, type=type, data=data, extra=extra, zone=zone,
\*        driver=self)
Record(self, name, zone, type, data, extra) ==
    [t |-> "Record", id |-> PyBuiltinId, name |-> name, type |-> type,
     data |-> data, extra |-> extra, zone |-> zone, driver |-> self]

create_record ==
    /\ pc = "ready"
    /\ \E self \in Drivers, name \in Names, zone \in ZoneIds, type \in Types,
       data \in Datas, given \in BOOLEAN, x \in Extras :
        LET extra == create_record_extra(given, x)
            c == [op |-> "create_record", self |-> self, name |-> name,
                  zone |-> zone, type |-> type, data |-> data,
                  extra_given |-> given, extra |-> extra]
            service_mode == int(extra)
        IN  /\ given \/ x = PyNone
            /\ IF ~service_mode.ok
               THEN Finish(c, <<>>, <<>>, Raise(service_mode.exc, NoFields, 0))
               ELSE \E t \in TransportOutcomes :
                      Finish(c,
                             <<connection_request(self, API_ACTION,
                                  create_record_params(name, zone, type, data,
                                                       service_mode.n))>>, <<t>>,
                             IF t.raised THEN Raise(t.exc, t.fields, 0)
                             ELSE IF t.resp.status # OK
                                  THEN Raise("AssertionError", NoFields, 0)
                             ELSE Return(Record(self, name, zone, type, data,
                                                extra), 0))

delete_record ==
    /\ pc = "ready"
    /\ \E self \in Drivers, zone_id \in ZoneIds, record \in Names,
       t \in TransportOutcomes :
        Finish([op |-> "delete_record", self |-> self, zone_id |-> zone_id,
                record |-> record],
               <<connection_request(self, API_ACTION,
                    "a" :> PyStr("rec_del") @@ "zone" :> zone_id
                    @@ "name" :> record)>>, <<t>>,
               status_ok(t))

update_record ==
    /\ pc = "ready"
    /\ \E self \in Drivers, record \in Names, name \in Names \cup {PyNone},
       type \in Types \cup {PyNone}, data \in Datas, extra \in {PyNone},
       t \in TransportOutcomes :
        Finish([op |-> "update_record", self |-> self, record |-> record,
                name |-> name, type |-> type, data |-> data, extra |-> extra],
               <<connection_request(self, API_ACTION,
                    "a" :> PyStr("DIUP") @@ "hosts" :> record @@ "ip" :> data)>>, <<t>>,
               status_ok(t))

ip_check ==
    /\ pc = "ready"
    /\ \E self \in Drivers, ip \in Ips, t \in TransportOutcomes :
        Finish([op |-> "ip_check", self |-> self, ip |-> ip],
               <<connection_request(self, API_ACTION,
                    "a" :> PyStr("ip_lkup") @@ "ip" :> ip)>>, <<t>>,
               assert_ok_extract(t, <<"response">>))

toggle_ipv6 ==
    /\ pc = "ready"
    /\ \E self \in Drivers, zone_id \in ZoneIds, mode \in Modes :
        LET c == [op |-> "toggle_ipv6", self |-> self, zone_id |-> zone_id,
                  mode |-> mode]
        IN  IF mode_rejected(mode)
            THEN Finish(c, <<>>, <<>>, mode_error)
            ELSE \E t \in TransportOutcomes :
                   Finish(c,
                          <<connection_request(self, API_ACTION,
                               "a" :> PyStr("ipv46") @@ "z" :> zone_id
                               @@ "v" :> PyInt(int(mode).n))>>, <<t>>,
                          status_ok(t))

Next ==
    \/ caller_continues
    \/ response_success
    \/ response_parse_error
    \/ connection_request_call
    \/ current_stats
    \/ set_security_level
    \/ set_cache_level
    \/ set_development_mode
    \/ purge_cache
    \/ purge_preloader_cache
    \/ zone_check
    \/ zone_ips
    \/ zone_grab
    \/ report_spam
    \/ whitelist_ip
    \/ blacklist_ip
    \/ create_record
    \/ delete_record
    \/ update_record
    \/ ip_check
    \/ toggle_ipv6

Spec == Init /\ [][Next]_vars

(***************************************************************************)
(* Properties.                                                             *)
(***************************************************************************)
Returned(op) == pc = "returned" /\ call.op = op

\* the exchange of the call with the transport: one request, answered by
\* a response with status 200
AnsweredOk ==
    /\ Len(replies) = 1
    /\ ~replies[1].raised
    /\ replies[1].resp.status = OK

\* C1: for a response whose body is a JSON object with a `result` field,
\* success() returns, and what it returns is true exactly when the status
\* is 200 and `result` is "success".
C1_SuccessIffOkAndResultSuccess ==
    Returned("success") =>
        \A doc \in Docs :
            (call.resp.body = Dumps(doc) /\ HasItem(doc, "result")) =>
                /\ outcome.kind = "return"
                /\ Truthy(outcome.val) <=>
                     (call.resp.status = OK /\ doc.d["result"] = PyStr("success"))

C1_Witness ==
    /\ Returned("success")
    /\ call.resp.status = OK
    /\ call.resp.body = Dumps(PyDict("result" :> PyStr("success")))
    /\ outcome.kind = "return"
    /\ Truthy(outcome.val)

\* C2: for a status that is neither 401 nor 503, parse_error never
\* returns: it raises MalformedResponseError carrying the body when the
\* body is no JSON, and CloudFlareDNSError with code = the status,
\* err_code = the body's err_code and err_msg = the body's msg when the
\* body is a JSON object with both fields.
C2_OtherStatusRaises ==
    (Returned("parse_error")
     /\ call.resp.status \notin {UNAUTHORIZED, SERVICE_UNAVAILABLE}) =>
        /\ outcome.kind = "raise"
        /\ call.resp.body \in BrokenTexts =>
             /\ outcome.exc = "MalformedResponseError"
             /\ outcome.val.body = call.resp.body
        /\ \A doc \in Docs :
             (call.resp.body = Dumps(doc) /\ HasItem(doc, "err_code")
              /\ HasItem(doc, "msg")) =>
                /\ outcome.exc = "CloudFlareDNSError"
                /\ outcome.val.code = call.resp.status
                /\ outcome.val.err_code = doc.d["err_code"]
                /\ outcome.val.err_msg = doc.d["msg"]

C2_Witness ==
    /\ Returned("parse_error")
    /\ call.resp.status = 500
    /\ call.resp.body = Dumps(PyDict("err_code" :> PyStr("E_FOO")
                                     @@ "msg" :> PyStr("bad thing")))
    /\ outcome.kind = "raise"
    /\ outcome.exc = "CloudFlareDNSError"
    /\ outcome.val.err_code = PyStr("E_FOO")
    /\ outcome.val.err_msg = PyStr("bad thing")

\* C3: for status 401 parse_error raises InvalidCredsError whatever the
\* body is; the message is the body when the body is not empty, and the
\* status code followed by the status text when it is empty.
C3_UnauthorizedRaisesInvalidCreds ==
    (Returned("parse_error") /\ call.resp.status = UNAUTHORIZED) =>
        /\ outcome.kind = "raise"
        /\ outcome.exc = "InvalidCredsError"
        /\ call.resp.body # <<>> => outcome.val.value = call.resp.body
        /\ call.resp.body = <<>> =>
             outcome.val.value = <<Raw("401"), Raw(": ")>> \o call.resp.error

C3_Witness ==
    /\ Returned("parse_error")
    /\ call.resp.status = UNAUTHORIZED
    /\ call.resp.body = <<>>
    /\ outcome.kind = "raise"
    /\ outcome.exc = "InvalidCredsError"
    /\ outcome.val.value = <<Raw("401"), Raw(": "), Raw("Unauthorized")>>

\* C4: for status 503 parse_error raises nothing and returns the body
\* unchanged, whatever the body is, without a call of json.loads.
C4_ServiceUnavailableReturnsBody ==
    (Returned("parse_error") /\ call.resp.status = SERVICE_UNAVAILABLE) =>
        /\ outcome.kind = "return"
        /\ outcome.val = call.resp.body
        /\ outcome.loads = 0

C4_Witness ==
    /\ Returned("parse_error")
    /\ call.resp.status = SERVICE_UNAVAILABLE
    /\ call.resp.body = <<Raw("OK")>>
    /\ outcome.kind = "return"
    /\ outcome.val = <<Raw("OK")>>

\* C5: every request handed to the transport carries u = the account
\* identifier and tkn = the API key the driver of the call was constructed
\* with, whatever u and tkn the caller gave, and the stored credentials
\* are those of the construction.
C5_RequestsCarryCredentials ==
    /\ conn = ctor
    /\ \A i \in DOMAIN sent :
         /\ sent[i].conn = call.self
         /\ "u" \in DOMAIN sent[i].params
         /\ "tkn" \in DOMAIN sent[i].params
         /\ sent[i].params["u"] = ctor[call.self].user_id
         /\ sent[i].params["tkn"] = ctor[call.self].key

C5_Witness ==
    /\ Returned("request")
    /\ call.params = PyDict("tkn" :> PyStr("key0") @@ "u" :> PyStr("bob"))
    /\ ctor[call.self] = [user_id |-> PyStr("alice"), key |-> PyStr("key1")]
    /\ Len(sent) = 1
    /\ sent[1].params["u"] = PyStr("alice")
    /\ sent[1].params["tkn"] = PyStr("key1")

\* the calls C6 is about: a level outside the allowed ones
InvalidLevelCall ==
    \/ Returned("set_security_level")
       /\ call.level \notin {PyStr("high"), PyStr("med"), PyStr("low"), PyStr("eoff")}
    \/ Returned("set_cache_level")
       /\ call.level \notin {PyStr("agg"), PyStr("basic")}

\* C6: set_security_level with a level outside {high, med, low, eoff} and
\* set_cache_level with a level outside {agg, basic} raise
\* CloudFlareDNSError with err_code E_INVLDINPUT, and hand no request to
\* the connection.
C6_InvalidLevelRaisesValidationError ==
    InvalidLevelCall =>
        /\ outcome.kind = "raise"
        /\ outcome.exc = "CloudFlareDNSError"
        /\ outcome.val.err_code = PyStr("E_INVLDINPUT")
        /\ sent = <<>>

\* the calls C7 is about: a mode that is no bool
NonBoolModeCall ==
    /\ Returned("set_development_mode") \/ Returned("toggle_ipv6")
    /\ call.mode \notin {PyBool(TRUE), PyBool(FALSE)}

\* C7: set_development_mode and toggle_ipv6 with a mode that is no bool
\* (the ints 0 and 1 included) raise CloudFlareDNSError with err_code
\* E_INVLDINPUT, and hand no request to the connection.
C7_NonBoolModeRaisesValidationError ==
    NonBoolModeCall =>
        /\ outcome.kind = "raise"
        /\ outcome.exc = "CloudFlareDNSError"
        /\ outcome.val.err_code = PyStr("E_INVLDINPUT")
        /\ sent = <<>>

C7_Witness ==
    /\ Returned("toggle_ipv6")
    /\ call.mode = PyInt(1)
    /\ outcome.kind = "raise"
    /\ outcome.exc = "CloudFlareDNSError"
    /\ sent = <<>>

\* the extras int() accepts, with the int each stands for
ServiceModes ==
    {<<PyInt(n), n>> : n \in 0..MaxInt}
    \cup {<<PyBool(TRUE), 1>>, <<PyStr("1"), 1>>}

\* C8: create_record with an int-coercible extra hands one request to the
\* connection, with a=rec_set, name, zone, type, content=data and
\* service_mode=int(extra); answered with status 200 it returns a Record
\* with the name, type, data and zone that were sent, whose driver is the
\* driver of the call.
C8_CreateRecordSendsAndReturnsRecord ==
    \A sm \in ServiceModes :
        (Returned("create_record") /\ call.extra_given /\ call.extra = sm[1]) =>
            /\ Len(sent) = 1
            /\ \A k \in {"a", "name", "zone", "type", "content", "service_mode"} :
                 k \in DOMAIN sent[1].params
            /\ sent[1].params["a"] = PyStr("rec_set")
            /\ sent[1].params["name"] = call.name
            /\ sent[1].params["zone"] = call.zone
            /\ sent[1].params["type"] = call.type
            /\ sent[1].params["content"] = call.data
            /\ sent[1].params["service_mode"] = PyInt(sm[2])
            /\ AnsweredOk =>
                 /\ outcome.kind = "return"
                 /\ outcome.val.t = "Record"
                 /\ outcome.val.name = sent[1].params["name"]
                 /\ outcome.val.type = sent[1].params["type"]
                 /\ outcome.val.data = sent[1].params["content"]
                 /\ outcome.val.zone = sent[1].params["zone"]
                 /\ outcome.val.driver = call.self

C8_Witness ==
    /\ Returned("create_record")
    /\ call.extra_given
    /\ call.extra = PyStr("1")
    /\ call.self = "d2"
    /\ AnsweredOk
    /\ sent[1].params["service_mode"] = PyInt(1)
    /\ outcome.kind = "return"
    /\ outcome.val.t = "Record"
    /\ outcome.val.driver = "d2"

\* C9: zone_ips sends each of hours, class and geo exactly when the caller
\* gave that keyword, with the value given; with none given it sends only
\* a and zid next to the injected u and tkn.
C9_ZoneIpsForwardsSuppliedKeywords ==
    Returned("zone_ips") =>
        /\ Len(sent) = 1
        /\ DOMAIN sent[1].params = {"a", "zid", "u", "tkn"} \cup DOMAIN call.kw
        /\ sent[1].params["a"] = PyStr("zone_ips")
        /\ sent[1].params["zid"] = call.zone_id
        /\ \A k \in DOMAIN call.kw : sent[1].params[k] = call.kw[k]

\* the calls C10 is about: no extra, or an extra int() does not accept
NoServiceModeCall ==
    /\ Returned("create_record")
    /\ ~call.extra_given \/ call.extra \in {PyNone, PyStr("abc")}

\* C10: create_record without an extra, or with an extra that int() does
\* not accept, raises an error, hands no request to the connection and
\* returns no Record.
C10_CreateRecordWithoutServiceModeFails ==
    NoServiceModeCall =>
        /\ outcome.kind = "raise"
        /\ outcome.exc \in {"TypeError", "ValueError"}
        /\ sent = <<>>

C10_Witness ==
    /\ Returned("create_record")
    /\ ~call.extra_given
    /\ outcome.kind = "raise"
    /\ outcome.exc = "TypeError"
    /\ sent = <<>>

====
